---- MODULE Spec2Model ----
(***************************************************************************)
(* Model of the MQTT v5 client connection adapter (example/mqtt_pub.hpp)   *)
(* and of the socket address value type (include/ip/endpoint.hpp).         *)
(*                                                                         *)
(* A callback of the adapter is one action.  What a callback does is       *)
(* computed as the sequence of calls it makes, in program order (its call  *)
(* trace): the transport's Send and Close, the engine's send,              *)
(* acquire_unique_packet_id, release_packet_id and notify_closed, and the  *)
(* exception that leaves it.  The action then applies the trace to the     *)
(* transport and to the engine.                                            *)
(***************************************************************************)
EXTENDS Integers, Sequences, FiniteSets

VARIABLES
    socket_,      \* the owned transport: how often Close was called on it
    pid_pool,     \* engine: the packet identifiers in use
    notified,     \* engine: number of notify_closed calls received
    disconnects,  \* number of disconnect packets handed to the engine's send
    alive,        \* FALSE once the process aborted
    cb,           \* the callback that ran last, with its input
    log,          \* the call trace of that callback
    entry,        \* the transport/engine state that callback started in
    steps,        \* callbacks run so far
    eo_pids,      \* identifiers of the adapter's exactly-once publishes awaiting pubcomp
    faulted,      \* TRUE once a transport Send has failed
    d_data,       \* endpoint: the object's bytes (storage, then the guard bytes after it)
    d_size,       \* endpoint: the length field
    ep_op,        \* endpoint: the operation that ran last
    ep_src,       \* endpoint: the source bytes of the last construction
    ep_len        \* endpoint: the length passed to the last construction

conn_vars == <<socket_, pid_pool, notified, disconnects, alive, cb, log, entry, steps,
               eo_pids, faulted>>
ep_vars == <<d_data, d_size, ep_op, ep_src, ep_len>>
vars == <<socket_, pid_pool, notified, disconnects, alive, cb, log, entry, steps,
          eo_pids, faulted, d_data, d_size, ep_op, ep_src, ep_len>>

\* ---- bounds -------------------------------------------------------------
MaxSteps == 3       \* callbacks per run
MaxPid == 2         \* packet identifiers 1..MaxPid
MaxSegs == 3        \* buffer segments of an engine-built packet
Capacity == 3       \* bytes of the address storage (scaled sizeof(sockaddr_storage))
MaxExtra == 2       \* how far a passed length may exceed the capacity
MaxLiveSteps == 2   \* callbacks per run of the fair session, the completing pubcomp apart

PidSet == 1..MaxPid
Byte == {1, 2}

\* ---- optional<packet_id_type> as a set with at most one element ----------
nullopt == {}
Opt(S) == {nullopt} \cup {{x} : x \in S}

\* ---- call trace -----------------------------------------------------------
Ev(op, kind, qos, pid, data, ret) ==
    [op |-> op, kind |-> kind, qos |-> qos, pid |-> pid, data |-> data, ret |-> ret]

Call(op) == Ev(op, "", 0, nullopt, <<>>, 0)

IsOp(e, op) == e.op = op
Count(evs, op) == Cardinality({i \in 1..Len(evs) : evs[i].op = op})
Ops(evs) == [i \in 1..Len(evs) |-> evs[i].op]

\* An exception (or an abort) is leaving the traced code.
Raised(evs) == evs # <<>> /\ evs[Len(evs)].op \in {"throw", "abort"}
Front(evs) == SubSeq(evs, 1, Len(evs) - 1)

\* ---- packets --------------------------------------------------------------
\* A packet is its kind, its quality of service, its packet identifier (if
\* any) and the buffer segments of its wire representation.
Packet(kind, qos, pid, segs) == [kind |-> kind, qos |-> qos, pid |-> pid, segs |-> segs]

Segments == {<<>>, <<1>>, <<2>>, <<1, 2>>}
BufferSequences == UNION {[1..n -> Segments] : n \in 0..MaxSegs}

\* The packets the engine sends on its own in the connection's runs: one
\* without bytes, one of three segments.
EnginePackets == {<<>>, << <<1>>, <<>>, <<2, 1>> >>}

\* The engine's encoding of the packets the adapter builds: a fixed header
\* segment, the identifier segment (empty without identifier) and the payload.
const_buffer_sequence(kind, qos, pid) ==
    LET idseg == IF pid = nullopt THEN <<>> ELSE <<CHOOSE x \in pid : TRUE>>
    IN  IF kind = "publish"
        THEN << <<3, qos>>, idseg, <<qos + 1>> >>
        ELSE << <<14>>, <<>> >>

publish_packet(pid, qos) == Packet("publish", qos, pid, const_buffer_sequence("publish", qos, pid))
disconnect_packet == Packet("disconnect", 0, nullopt, const_buffer_sequence("disconnect", 0, nullopt))

\* ---- on_send ----------------------------------------------------------------
\* for (buf : buffers) total_size += buf.size();
RECURSIVE total_size(_)
total_size(buffers) ==
    IF buffers = <<>> THEN 0
    ELSE Len(Head(buffers)) + total_size(Tail(buffers))

\* std::memcpy(dest, buf.data(), buf.size()) at offset off of the flat buffer
copy_segment(flat, off, buf) ==
    [i \in 1..Len(flat) |->
        IF i > off /\ i <= off + Len(buf) THEN buf[i - off] ELSE flat[i]]

\* The copy loop without dest += buf.size(): every segment lands at the start.
RECURSIVE copy_loop_no_advance(_, _, _)
copy_loop_no_advance(flat, off, buffers) ==
    IF buffers = <<>> THEN flat
    ELSE copy_loop_no_advance(copy_segment(flat, off, Head(buffers)), off, Tail(buffers))

\* for (buf : buffers) { memcpy(dest, ...); dest += buf.size(); }
RECURSIVE copy_loop(_, _, _)
copy_loop(flat, off, buffers) ==
    IF buffers = <<>> THEN flat
    ELSE copy_loop(copy_segment(flat, off, Head(buffers)),
                   off + Len(Head(buffers)), Tail(buffers))

\* std::vector<char> flat_buffer(total_size), then the copy loop
flat_buffer(buffers) ==
    copy_loop([i \in 1..total_size(buffers) |-> 0], 0, buffers)

\* socket_.Send(flat_buffer.data(), flat_buffer.size(), 0, -1) returning sent
socket_Send(flat, sent) == Ev("Send", "", 0, nullopt, flat, sent)

\* What the transport may return for a write of total bytes: an error, a
\* short count, or the full count.
SendResults(total) == {r \in {-1, total - 1, total} : r >= -1}

\* The failure paths without their release_packet_id call.
release_forgotten(rel) == <<>>

\* if (release_packet_id_if_send_error) release_packet_id(*...);
release_if(rel) ==
    IF rel = nullopt THEN <<>> ELSE <<Ev("release", "", 0, rel, <<>>, 0)>>

\* sent < 0 || static_cast<std::size_t>(sent) != total_size
send_failed(sent, total) == sent < 0 \/ sent # total

\* The try block: flatten, Send, and on failure release and throw.
on_send_try(packet, rel, sent) ==
    LET total == total_size(packet.segs)
        flat == flat_buffer(packet.segs)
    IN  <<socket_Send(flat, sent)>> \o
        (IF send_failed(sent, total)
         THEN release_if(rel) \o <<Call("throw")>>
         ELSE <<>>)

\* The catch handler without its throw: the failure is swallowed.
on_send_catch_swallows(body, rel) ==
    IF Raised(body) THEN Front(body) \o release_if(rel) ELSE body

\* The catch (system_error) handler: release, then rethrow.
on_send_catch(body, rel) ==
    IF Raised(body)
    THEN Front(body) \o release_if(rel) \o <<Call("throw")>>
    ELSE body

on_send(packet, rel, sent) == on_send_catch(on_send_try(packet, rel, sent), rel)

\* ---- the protocol engine (am::connection<role::client>) ----------------------
\* The identifier to release when the send fails: the engine passes the
\* packet's own identifier for a publish above at-most-once.
release_packet_id_if_send_error(packet) ==
    IF packet.kind = "publish" /\ packet.qos > 0 THEN packet.pid ELSE nullopt

\* send(packet): the engine hands the packet to on_send; what on_send throws
\* leaves send.
send(packet, sent) ==
    <<Ev("send", packet.kind, packet.qos, packet.pid, <<>>, 0)>>
    \o on_send(packet, release_packet_id_if_send_error(packet), sent)

\* acquire_unique_packet_id(): a free identifier (x, the engine's choice), or
\* nothing when every identifier is in use.
acquire_unique_packet_id(pool, x) ==
    IF PidSet \ pool = {} THEN nullopt ELSE {x}

\* The identifiers in use after the acquisitions and releases of a trace.
RECURSIVE pool_after(_, _)
pool_after(pool, evs) ==
    IF evs = <<>> THEN pool
    ELSE LET e == Head(evs)
         IN  pool_after(IF e.op = "acquire" THEN pool \cup e.pid
                        ELSE IF e.op = "release" THEN pool \ e.pid
                        ELSE pool,
                        Tail(evs))

\* ---- on_error, on_close -------------------------------------------------------
\* The two calls in the other order.
notify_and_close == <<Call("notify_closed"), Call("Close")>>

\* socket_.Close(); notify_closed();
close_and_notify == <<Call("Close"), Call("notify_closed")>>

on_error == close_and_notify

on_close == close_and_notify

\* ---- on_receive -----------------------------------------------------------------
\* make_error_code(p.code()) is set for every reason code but success (0).
ReasonCodes == {0, 128, 135}
make_error_code(code) == code # 0

\* *acquire_unique_packet_id() of an empty result is undefined: the process
\* aborts (UBAbort), or the publish carries whatever the storage holds.
UBAbort == 0 - 1
UBOutcomes == {UBAbort, 0, MaxPid}

AcquireInputs(pool) ==
    IF PidSet \ pool = {} THEN UBOutcomes ELSE PidSet \ pool

\* send(publish_packet{*acquire_unique_packet_id(), topic, payload, qos})
publish_with_id(pool, qos, x, sent) ==
    LET acq == acquire_unique_packet_id(pool, x)
    IN  <<Ev("acquire", "", 0, acq, <<>>, 0)>> \o
        (IF acq = nullopt
         THEN <<Call("deref_empty")>> \o
              (IF x = UBAbort THEN <<Call("abort")>>
               ELSE send(publish_packet({x}, qos), sent))
         ELSE send(publish_packet(acq, qos), sent))

\* connack with success: three publishes, each statement reached only when
\* the one before it returned.
connack_success(pool, r1, x1, r2, x2, r3) ==
    LET s1 == send(publish_packet(nullopt, 0), r1)
        s2 == publish_with_id(pool_after(pool, s1), 1, x1, r2)
        s3 == publish_with_id(pool_after(pool, s1 \o s2), 2, x2, r3)
    IN  IF Raised(s1) THEN s1
        ELSE IF Raised(s2) THEN s1 \o s2
        ELSE s1 \o s2 \o s3

\* The failure arm without its notify_closed call.
connack_failure_unnotified == <<Call("Close")>>

\* connack with a failure reason code: socket_.Close(); notify_closed();
connack_failure == <<Call("Close"), Call("notify_closed")>>

on_receive_connack(code, pool, r1, x1, r2, x2, r3) ==
    IF make_error_code(code) THEN connack_failure
    ELSE connack_success(pool, r1, x1, r2, x2, r3)

\* The pubcomp arm logging only.
on_receive_pubcomp_silent(sent) == <<>>

\* pubcomp: send(disconnect_packet{})
on_receive_pubcomp(sent) == send(disconnect_packet, sent)

\* A logging arm that closes the connection as the connack failure arm does.
on_receive_observed_closing == <<Call("Close"), Call("notify_closed")>>

\* publish, puback, pubrec, pubrel and every other kind: logging only
ObservedKinds == {"publish", "puback", "pubrec", "pubrel", "other"}
on_receive_observed == <<>>

on_packet_id_release == <<>>

on_timer_op == <<>>

PublishSize(qos) ==
    total_size(const_buffer_sequence("publish", qos, IF qos = 0 THEN nullopt ELSE {1}))
DisconnectSize == total_size(disconnect_packet.segs)

\* ---- ip::endpoint -----------------------------------------------------------------
\* The object's memory: Capacity bytes of storage, then MaxExtra bytes that
\* follow the storage in memory (nothing may write them through d_data).
MemLen == Capacity + MaxExtra
Storage(mem) == SubSeq(mem, 1, Capacity)
Beyond(mem) == SubSeq(mem, Capacity + 1, MemLen)

\* ::sockaddr_storage d_data{} : value-initialised, every byte zero
zero_storage == [i \in 1..MemLen |-> 0]

min(a, b) == IF a < b THEN a ELSE b

\* std::memcpy(&d_data, data, n)
memcpy(mem, data, n) ==
    [i \in 1..Len(mem) |-> IF i <= n THEN data[i] ELSE mem[i]]

\* The default constructor with the length member initialised to zero.
endpoint_default_empty == [d_data |-> zero_storage, d_size |-> 0]

\* endpoint() = default, with d_data{} and d_size{sizeof(sockaddr_storage)}
endpoint_default == [d_data |-> zero_storage, d_size |-> Capacity]

\* The constructor copying size bytes, without the std::min against the capacity.
endpoint_bytes_unclamped(data, size) ==
    [d_data |-> memcpy(zero_storage, data, size), d_size |-> size]

\* endpoint(const void *data, socklen_t size)
endpoint_bytes(data, size) ==
    [d_data |-> memcpy(zero_storage, data, min(size, Capacity)), d_size |-> size]

\* endpoint(ET &e) : endpoint(e.data(), e.size())
endpoint_provider(e) == endpoint_bytes(e.data, e.size)

\* The byte sequences a caller passes, each readable for its whole length.
SourceBytes == UNION {[1..n -> Byte] : n \in 0..MemLen}

\* ---- state machine: the connection adapter ----------------------------------------
Cb(name, kind, pid, segs, ret) ==
    [name |-> name, kind |-> kind, pid |-> pid, segs |-> segs, ret |-> ret]

Disconnects(evs) ==
    Cardinality({i \in 1..Len(evs) : evs[i].op = "send" /\ evs[i].kind = "disconnect"})

Init ==
    /\ socket_ = [close_calls |-> 0]
    /\ pid_pool = {}
    /\ notified = 0
    /\ disconnects = 0
    /\ alive = TRUE
    /\ cb = Cb("constructor", "", nullopt, <<>>, 0)
    /\ log = <<>>
    /\ entry = [close_calls |-> 0, pool |-> {}, disconnects |-> 0,
                eo |-> {}, faulted |-> FALSE]
    /\ steps = 0
    /\ eo_pids = {}
    /\ faulted = FALSE
    /\ d_data = endpoint_default.d_data
    /\ d_size = endpoint_default.d_size
    /\ ep_op = "default"
    /\ ep_src = <<>>
    /\ ep_len = 0

\* A transport Send of the trace returned an error or a short count.
SendFault(evs) ==
    \E i \in 1..Len(evs) :
        evs[i].op = "Send" /\ send_failed(evs[i].ret, Len(evs[i].data))

\* The identifiers of the exactly-once publishes of the trace that the
\* transport took in full.
ExactlyOnceSent(evs) ==
    UNION {evs[i].pid : i \in {j \in 1..(Len(evs) - 1) :
               /\ evs[j].op = "send" /\ evs[j].kind = "publish" /\ evs[j].qos = 2
               /\ evs[j + 1].op = "Send"
               /\ ~send_failed(evs[j + 1].ret, Len(evs[j + 1].data))}}

\* What one callback does to the transport and to the engine: call is the
\* callback and its input, pool the identifiers in use when it starts, evs its
\* call trace.
Effect(call, pool, evs) ==
    /\ alive
    /\ cb' = call
    /\ log' = evs
    /\ entry' = [close_calls |-> socket_.close_calls, pool |-> pool,
                 disconnects |-> disconnects, eo |-> eo_pids, faulted |-> faulted]
    /\ socket_' = [close_calls |-> socket_.close_calls + Count(evs, "Close")]
    /\ pid_pool' = pool_after(pool, evs)
    /\ notified' = notified + Count(evs, "notify_closed")
    /\ disconnects' = disconnects + Disconnects(evs)
    /\ alive' = (Count(evs, "abort") = 0)
    /\ eo_pids' = (IF call.name = "on_receive" /\ call.kind = "pubcomp"
                   THEN eo_pids \ call.pid ELSE eo_pids) \cup ExactlyOnceSent(evs)
    /\ faulted' = (faulted \/ SendFault(evs))
    /\ UNCHANGED ep_vars

\* One callback of a bounded run.
Run(call, pool, evs) ==
    /\ steps < MaxSteps
    /\ steps' = steps + 1
    /\ Effect(call, pool, evs)

OnError ==
    Run(Cb("on_error", "", nullopt, <<>>, 0), pid_pool, on_error)

OnClose ==
    Run(Cb("on_close", "", nullopt, <<>>, 0), pid_pool, on_close)

\* The engine calls on_send for a packet of its own (an automatic response,
\* a stored publish): any buffer sequence, any identifier in use.
OnSend ==
    \E segs \in EnginePackets, rel \in Opt(pid_pool) :
        \E sent \in SendResults(total_size(segs)) :
            Run(Cb("on_send", "packet", rel, segs, sent), pid_pool,
                on_send(Packet("packet", 0, rel, segs), rel, sent))

OnPacketIdRelease ==
    \E pid \in PidSet :
        Run(Cb("on_packet_id_release", "", {pid}, <<>>, 0), pid_pool,
            on_packet_id_release)

\* An input of a statement the callback does not reach is not drawn.
Inputs(reached, S) == IF reached THEN S ELSE {0}

OnReceiveConnack ==
    \E code \in ReasonCodes :
    \E r1 \in Inputs(~make_error_code(code), SendResults(PublishSize(0))) :
    \E x1 \in Inputs(~make_error_code(code) /\ ~send_failed(r1, PublishSize(0)),
                     AcquireInputs(pid_pool)) :
    \E r2 \in Inputs(~make_error_code(code) /\ ~send_failed(r1, PublishSize(0))
                     /\ x1 # UBAbort,
                     SendResults(PublishSize(1))) :
    \E x2 \in Inputs(~make_error_code(code) /\ ~send_failed(r1, PublishSize(0))
                     /\ x1 # UBAbort /\ ~send_failed(r2, PublishSize(1)),
                     AcquireInputs(pid_pool \cup (IF x1 \in PidSet THEN {x1} ELSE {}))) :
    \E r3 \in Inputs(~make_error_code(code) /\ ~send_failed(r1, PublishSize(0))
                     /\ x1 # UBAbort /\ ~send_failed(r2, PublishSize(1))
                     /\ x2 # UBAbort,
                     SendResults(PublishSize(2))) :
        Run(Cb("on_receive", "connack", nullopt, <<>>, code), pid_pool,
            on_receive_connack(code, pid_pool, r1, x1, r2, x2, r3))

\* The engine frees the acknowledged identifier before it calls on_receive.
OnReceivePubcomp ==
    \E pid \in PidSet, sent \in SendResults(DisconnectSize) :
        Run(Cb("on_receive", "pubcomp", {pid}, <<>>, sent), pid_pool \ {pid},
            on_receive_pubcomp(sent))

OnReceiveObserved ==
    \E kind \in ObservedKinds :
    \E pid \in Inputs(kind = "puback", PidSet) :
        Run(Cb("on_receive", kind, IF pid = 0 THEN nullopt ELSE {pid}, <<>>, 0),
            pid_pool \ {pid}, on_receive_observed)

OnTimerOp ==
    Run(Cb("on_timer_op", "", nullopt, <<>>, 0), pid_pool, on_timer_op)

\* The application takes an identifier for a publish of its own.
AppAcquire ==
    \E x \in PidSet \ pid_pool :
        Run(Cb("acquire_unique_packet_id", "", {x}, <<>>, 0), pid_pool,
            <<Ev("acquire", "", 0, acquire_unique_packet_id(pid_pool, x), <<>>, 0)>>)

Next ==
    \/ OnError
    \/ OnClose
    \/ OnSend
    \/ OnPacketIdRelease
    \/ OnReceiveConnack
    \/ OnReceivePubcomp
    \/ OnReceiveObserved
    \/ OnTimerOp
    \/ AppAcquire

Spec == Init /\ [][Next]_vars

\* ---- the session under a fair engine ------------------------------------------------
\* The engine delivers the pubcomp that completes an exactly-once publish of
\* the adapter; this delivery is not cut off by the bound on the run.
PubcompCompletes ==
    \E pid \in eo_pids, sent \in SendResults(DisconnectSize) :
        /\ Effect(Cb("on_receive", "pubcomp", {pid}, <<>>, sent), pid_pool \ {pid},
                  on_receive_pubcomp(sent))
        /\ UNCHANGED steps

\* The callbacks of a session: what the peer sends, the timer, a close or
\* an error, and the completing pubcomp.
\* The engine's keep-alive timer keeps running for as long as the process
\* lives: on_timer_op is called again and again with op reset or cancel,
\* whatever else happens.
TimerOps == {"reset", "cancel"}

TimerTick ==
    \E op \in TimerOps :
        /\ Effect(Cb("on_timer_op", op, nullopt, <<>>, 0), pid_pool, on_timer_op)
        /\ UNCHANGED steps

SessionCallback ==
    /\ steps < MaxLiveSteps
    /\ \/ OnReceiveConnack
       \/ OnReceivePubcomp
       \/ OnReceiveObserved
       \/ OnError
       \/ OnClose

LiveNext == SessionCallback \/ PubcompCompletes \/ TimerTick

LiveSpec ==
    Init /\ [][LiveNext]_vars /\ WF_vars(PubcompCompletes) /\ WF_vars(TimerTick)

\* ---- on_send alone, over every buffer sequence --------------------------------------
\* on_send is a function of its packet, its identifier and what Send returns:
\* it is applied once to each input, with any set of identifiers in use.
SendInit ==
    /\ socket_ = [close_calls |-> 0]
    /\ pid_pool \in SUBSET PidSet
    /\ notified = 0
    /\ disconnects = 0
    /\ alive = TRUE
    /\ cb = Cb("constructor", "", nullopt, <<>>, 0)
    /\ log = <<>>
    /\ entry = [close_calls |-> 0, pool |-> pid_pool, disconnects |-> 0,
                eo |-> {}, faulted |-> FALSE]
    /\ steps = 0
    /\ eo_pids = {}
    /\ faulted = FALSE
    /\ d_data = endpoint_default.d_data
    /\ d_size = endpoint_default.d_size
    /\ ep_op = "default"
    /\ ep_src = <<>>
    /\ ep_len = 0

OnSendAny ==
    /\ steps = 0
    /\ \E segs \in BufferSequences, rel \in Opt(pid_pool) :
        \E sent \in SendResults(total_size(segs)) :
            Run(Cb("on_send", "packet", rel, segs, sent), pid_pool,
                on_send(Packet("packet", 0, rel, segs), rel, sent))

SendSpec == SendInit /\ [][OnSendAny]_vars

\* ---- state machine: the address value ---------------------------------------------
EpSet(op, e, src, len) ==
    /\ d_data' = e.d_data
    /\ d_size' = e.d_size
    /\ ep_op' = op
    /\ ep_src' = src
    /\ ep_len' = len
    /\ UNCHANGED conn_vars

ConstructDefault == EpSet("default", endpoint_default, <<>>, 0)

ConstructBytes ==
    \E B \in SourceBytes : EpSet("bytes", endpoint_bytes(B, Len(B)), B, Len(B))

\* The provider is an address value like this one: its data() is its own
\* memory and its size() its length field.
ConstructProvider ==
    /\ d_size <= MemLen
    /\ EpSet("provider", endpoint_provider([data |-> d_data, size |-> d_size]),
             SubSeq(d_data, 1, d_size), d_size)

\* size() -> socklen_t & : the caller records a length
WriteSize ==
    \E n \in 0..MemLen : EpSet("size", [d_data |-> d_data, d_size |-> n], <<>>, 0)

\* storage() / data() : the caller fills the storage in place
WriteStorage ==
    \E B \in SourceBytes :
        /\ Len(B) <= Capacity
        /\ EpSet("storage", [d_data |-> memcpy(d_data, B, Len(B)), d_size |-> d_size],
                 <<>>, 0)

EndpointNext ==
    \/ ConstructDefault
    \/ ConstructBytes
    \/ ConstructProvider
    \/ WriteSize
    \/ WriteStorage

EndpointSpec == Init /\ [][EndpointNext]_vars

\* ---- properties ---------------------------------------------------------------------
\* The segments joined in their sequence order.
RECURSIVE Concat(_)
Concat(segs) == IF segs = <<>> THEN <<>> ELSE Head(segs) \o Concat(Tail(segs))

SendFailedAt(i) == log[i].ret < 0 \/ log[i].ret # Len(log[i].data)

\* The identifier on_send was given for the transport Send at position i of
\* the trace: the callback's own argument, or the one the engine's send passed.
RelAt(i) ==
    IF cb.name = "on_send" THEN cb.pid
    ELSE IF log[i - 1].kind = "publish" /\ log[i - 1].qos > 0 THEN log[i - 1].pid
    ELSE nullopt

\* C1: when the transport Send of an on_send call fails (negative or not the
\* total size) and an identifier was passed, release_packet_id is called for it
\* before the exception leaves on_send; when Send returns the total size,
\* on_send calls no release_packet_id.
C1_ReleaseOnSendFailure ==
    \A i \in 1..Len(log) :
        log[i].op = "Send" =>
            /\ (SendFailedAt(i) /\ RelAt(i) # nullopt) =>
                   \E j \in (i + 1)..Len(log), k \in (i + 1)..Len(log) :
                       /\ j < k
                       /\ log[j].op = "release" /\ log[j].pid = RelAt(i)
                       /\ log[k].op = "throw"
            /\ ~SendFailedAt(i) =>
                   /\ i = Len(log) \/ log[i + 1].op \notin {"release", "throw"}
                   /\ cb.name = "on_send" => Count(log, "release") = 0

C1_Witness ==
    /\ cb.name = "on_send"
    /\ cb.pid # nullopt
    /\ cb.ret = total_size(cb.segs) - 1
    /\ Count(log, "release") > 0
    /\ Raised(log)

\* C2: over the life of one adapter the transport's Close is called at most once.
C2_CloseAtMostOnce == socket_.close_calls <= 1

\* C3: an on_send call for a packet whose segments total S bytes makes exactly
\* one transport Send, of length S, whose bytes are the segments joined in order
\* (also for S = 0 and for empty segments).
C3_OneSendOfConcatenation ==
    cb.name = "on_send" =>
        /\ Count(log, "Send") = 1
        /\ log[1].op = "Send"
        /\ Len(log[1].data) = total_size(cb.segs)
        /\ log[1].data = Concat(cb.segs)

C3_Witness ==
    /\ cb.name = "on_send"
    /\ cb.segs = << <<2>>, <<>>, <<1, 2>> >>
    /\ log[1].data = <<2, 1, 2>>

\* C4: once the transport has been closed, no later callback hands a packet to
\* the engine's send or calls the transport's Send.
C4_NoSendAfterClose ==
    entry.close_calls > 0 => (Count(log, "send") = 0 /\ Count(log, "Send") = 0)

\* The publishes handed to the engine's send during the last callback.
PublishSends == SelectSeq(log, LAMBDA e : e.op = "send" /\ e.kind = "publish")
Acquired == SelectSeq(log, LAMBDA e : e.op = "acquire")

ConnackSuccess == cb.name = "on_receive" /\ cb.kind = "connack" /\ ~make_error_code(cb.ret)
ConnackFailure == cb.name = "on_receive" /\ cb.kind = "connack" /\ make_error_code(cb.ret)

\* C5: a successful connack whose sends do not fail issues exactly three
\* publishes, in the order at-most-once without identifier, at-least-once and
\* exactly-once, the last two each carrying an identifier acquired in this
\* callback that was free before it, and the two identifiers differ.
C5_ThreePublishes ==
    (ConnackSuccess /\ Count(log, "throw") = 0) =>
        /\ Len(PublishSends) = 3
        /\ Count(log, "send") = 3
        /\ PublishSends[1].qos = 0 /\ PublishSends[1].pid = nullopt
        /\ PublishSends[2].qos = 1 /\ PublishSends[3].qos = 2
        /\ Len(Acquired) = 2
        /\ Acquired[1].pid # nullopt /\ Acquired[2].pid # nullopt
        /\ PublishSends[2].pid = Acquired[1].pid
        /\ PublishSends[3].pid = Acquired[2].pid
        /\ Acquired[1].pid \cap entry.pool = {}
        /\ Acquired[2].pid \cap entry.pool = {}
        /\ Acquired[1].pid # Acquired[2].pid

\* C6: over the life of the adapter exactly one disconnect is sent on pubcomp,
\* and once a disconnect has been sent no callback hands a further packet to
\* the engine's send.
C6_OneDisconnect ==
    /\ disconnects <= 1
    /\ (cb.name = "on_receive" /\ cb.kind = "pubcomp") => disconnects = 1
    /\ entry.disconnects > 0 => Count(log, "send") = 0

\* C7: a connack with a failure reason code closes the transport and then
\* notifies the engine of the closure; the callback sends no publish and
\* acquires no identifier.
C7_ConnackFailureCloses ==
    ConnackFailure =>
        /\ Count(log, "Close") = 1
        /\ Count(log, "notify_closed") = 1
        /\ Count(log, "send") = 0
        /\ Count(log, "Send") = 0
        /\ Count(log, "acquire") = 0
        /\ socket_.close_calls = entry.close_calls + 1
        /\ pid_pool = entry.pool

C7_Witness ==
    /\ ConnackFailure
    /\ entry.close_calls = 0
    /\ socket_.close_calls = 1
    /\ notified = 1

\* C8: the adapter never uses an empty result of acquire_unique_packet_id: no
\* publish is built from one.
C8_EmptyAcquisitionChecked == Count(log, "deref_empty") = 0

\* C9: constructing from bytes B with length L copies the first min(L, Capacity)
\* bytes into the storage, leaves the rest of the storage zero, writes nothing
\* past the storage, and the value reports length L, also when L > Capacity.
C9_ConstructTruncates ==
    ep_op \in {"bytes", "provider"} =>
        /\ \A i \in 1..Capacity :
               d_data[i] = IF i <= ep_len THEN ep_src[i] ELSE 0
        /\ \A i \in (Capacity + 1)..MemLen : d_data[i] = 0
        /\ Len(d_data) = MemLen
        /\ d_size = ep_len

C9_Witness ==
    /\ ep_op = "bytes"
    /\ ep_len = Capacity + 1
    /\ d_size = Capacity + 1
    /\ Storage(d_data) = SubSeq(ep_src, 1, Capacity)

\* C10: in every state of an address value the length field is at most the
\* capacity of the storage.
C10_SizeWithinCapacity == d_size <= Capacity

\* C11 as claimed: an address value is empty (length zero) or a copy of
\* caller-supplied bytes, and a default-constructed value has length zero.
C11_EmptyOrCopy ==
    /\ ep_op = "default" => d_size = 0
    /\ ep_op \in {"default", "bytes", "provider"} =>
           \/ d_size = 0
           \/ /\ ep_op # "default"
              /\ \A i \in 1..min(ep_len, Capacity) : d_data[i] = ep_src[i]

\* C11 as the code has it: a default-constructed value has every storage byte
\* zero and reports the capacity of the storage as its length; a value
\* constructed from bytes holds the first min(L, Capacity) caller bytes.
C11_DefaultReportsCapacity ==
    /\ ep_op = "default" =>
           /\ d_size = Capacity
           /\ \A i \in 1..MemLen : d_data[i] = 0
    /\ ep_op \in {"bytes", "provider"} =>
           \A i \in 1..min(ep_len, Capacity) : d_data[i] = ep_src[i]

C11_Witness ==
    /\ ep_op = "default"
    /\ d_size = Capacity
    /\ d_size > 0
    /\ Storage(d_data) = [i \in 1..Capacity |-> 0]

OnSendFailed == cb.name = "on_send" /\ send_failed(cb.ret, total_size(cb.segs))

\* C12: an on_send whose Send returns an error or a short count ends by
\* throwing and calls Send once only (no retry); an on_send whose Send returns
\* the full size returns without throwing.
C12_FailurePropagates ==
    cb.name = "on_send" =>
        /\ Count(log, "Send") = 1
        /\ OnSendFailed => (log[Len(log)].op = "throw" /\ log[1].op = "Send")
        /\ ~OnSendFailed => (Count(log, "throw") = 0 /\ Len(log) = 1)

C12_Witness ==
    /\ OnSendFailed
    /\ cb.ret = total_size(cb.segs) - 1
    /\ cb.ret >= 0
    /\ log[Len(log)].op = "throw"
    /\ Count(log, "Send") = 1

\* C13: a failed on_send that was given an identifier calls release_packet_id
\* for it exactly once.
C13_ReleasedOnce ==
    (OnSendFailed /\ cb.pid # nullopt) => Count(log, "release") = 1

\* C14: every notify_closed is preceded, in the same callback, by a transport
\* Close; on_error, on_close and the failed connack make the two calls in this
\* order; the engine is never told of closures the transport has not had.
C14_CloseBeforeNotify ==
    /\ \A i \in 1..Len(log) :
           log[i].op = "notify_closed" => \E j \in 1..(i - 1) : log[j].op = "Close"
    /\ (cb.name \in {"on_error", "on_close"} \/ ConnackFailure) =>
           Ops(log) = <<"Close", "notify_closed">>
    /\ notified <= socket_.close_calls
    /\ notified > 0 => socket_.close_calls > 0

C14_Witness ==
    /\ cb.name = "on_close"
    /\ Ops(log) = <<"Close", "notify_closed">>
    /\ notified = 1

\* C15: a disconnect is sent only on the pubcomp of an exactly-once publish
\* the adapter itself has sent and that is still awaiting its pubcomp.
C15_DisconnectOnlyForOwnFlow ==
    Disconnects(log) > 0 =>
        /\ cb.name = "on_receive" /\ cb.kind = "pubcomp"
        /\ cb.pid # nullopt
        /\ cb.pid \subseteq entry.eo

\* C16: after a callback in which a transport Send failed, the transport is
\* eventually closed, under an engine that keeps its timers running and
\* delivers every awaited pubcomp.
C16_FaultLeadsToClose ==
    (faulted /\ socket_.close_calls = 0) ~> (socket_.close_calls > 0)

\* C17: while an exactly-once publish of the adapter awaits its pubcomp and
\* the engine is fair in delivering it, a disconnect is eventually handed to
\* send (unless the process has aborted).
C17_DisconnectEventually ==
    (eo_pids # {}) ~> (Disconnects(log) > 0 \/ ~alive)

C17_Witness ==
    /\ cb.name = "on_receive" /\ cb.kind = "pubcomp"
    /\ cb.pid # nullopt
    /\ cb.pid \subseteq entry.eo
    /\ Disconnects(log) = 1
    /\ ~SendFault(log)

Observation ==
    \/ cb.name \in {"on_packet_id_release", "on_timer_op"}
    \/ cb.name = "on_receive" /\ cb.kind \in ObservedKinds

\* C18: on_packet_id_release, on_timer_op and on_receive of a publish, puback,
\* pubrec, pubrel or any kind but connack and pubcomp make no call at all: no
\* Send, no Close, no send, no acquisition, no release, no notify_closed.
C18_ObservationOnly ==
    Observation =>
        /\ log = <<>>
        /\ socket_.close_calls = entry.close_calls
        /\ pid_pool = entry.pool
        /\ disconnects = entry.disconnects
        /\ eo_pids = entry.eo
        /\ faulted = entry.faulted

C18_Witness ==
    /\ cb.name = "on_receive" /\ cb.kind = "pubrec"
    /\ log = <<>>
    /\ pid_pool # {}
    /\ entry.close_calls = 0
====
